---- MODULE Spec2Model ----
(***************************************************************************)
(* Shakti dashboard: the risk aggregation and map pipeline.                *)
(*                                                                         *)
(*   MapComponent   (src/unnamed/part_002)  getUniqueConsumers, the        *)
(*                  readiness poll, initializeMap, updateMarkers           *)
(*   ResultsDisplay (src/unnamed/part_001)  the normal-entries table       *)
(*   App            (src/unnamed/part_000)  handleFileUpload, handleFetch  *)
(*                                                                         *)
(* Three specifications share the variables:                               *)
(*   SpecRank  the pure functions, applied to inputs drawn by InitRank     *)
(*   Spec      the MapComponent state machine                              *)
(*   SpecApp   the orchestrator (App) and the toggle of ResultsDisplay     *)
(***************************************************************************)
EXTENDS Integers, Sequences, FiniteSets, TLC

VARIABLES
    \* --- the pure pipeline (SpecRank)
    rankIn,      \* the `data` object handed to the functions
    view,        \* getUniqueConsumers(data)
    pins,        \* the markers updateMarkers creates for that view
    rows,        \* sortedNormalItems of ResultsDisplay
    view2,       \* getUniqueConsumers(data), called a second time
    rankPc,      \* "start" | "ranked" | "rendered" | "again"
    \* --- MapComponent (Spec)
    phase,       \* "new" | "mounted" | "unmounted"
    google,      \* window.google: "absent" | "ok" | "mapThrows" | "markerThrows"
    data,        \* the data prop of the latest render
    data0,       \* the data prop of the first render (closure of the [] effect)
    googleMapRef,\* googleMapRef.current is set
    markersRef,  \* markersRef.current: the owned markers
    attached,    \* markers whose map is the surface (library side)
    error,       \* the error state is set
    timers,      \* pending setTimeout(checkForGoogleMaps, 500)
    mapCalls,    \* number of `new google.maps.Map` calls
    built,       \* number of those that returned a surface
    initCalls,   \* number of initializeMap calls
    uncaught,    \* an error escaped a handler
    \* --- App and ResultsDisplay (SpecApp)
    files,       \* files['source']: 0 (none) or the number of the upload
    loading,
    result,
    calls,       \* backend calls in flight
    alert,       \* the last alert shown
    showAll

rankVars == <<rankIn, view, pins, rows, view2, rankPc>>
mapVars  == <<phase, google, data, data0, googleMapRef, markersRef, attached,
              error, timers, mapCalls, built, initCalls, uncaught>>
appVars  == <<files, loading, result, calls, alert, showAll>>
vars     == <<rankVars, mapVars, appVars>>

(***************************************************************************)
(* Bounds                                                                  *)
(***************************************************************************)
\* longest `results` sequence drawn for the pure functions
MaxLen == 3
\* longest `results` sequence of a data push to the MapComponent
MaxDataLen == 2
\* uploads of a session
MaxUploads == 3

(***************************************************************************)
(* Values.  A JSON value is modelled by the string JavaScript makes of it: *)
(* a field that is absent reads as undefined.  Scores are hundredths.      *)
(***************************************************************************)
\* item.consumer_id absent: the property key it makes is "undefined"
NoId == "undefined"
\* item.aggregate_risk_score absent (undefined)
Absent == 0 - 1
\* item.risk_class absent (undefined)
NoClass == "<undefined>"
\* item.latitude / item.longitude absent: String(undefined)
NoCoord == "undefined"

Red == "#ef4444"
Yellow == "#eab308"

Rec(id, score, cls, lat, lng) ==
    [consumer_id |-> id, aggregate_risk_score |-> score, risk_class |-> cls,
     latitude |-> lat, longitude |-> lng]

Range(s) == {s[i] : i \in DOMAIN s}

SeqsUpTo(S, n) == UNION {[1..k -> S] : k \in 0..n}

\* data === null
NullData == [isNull |-> TRUE, hasResults |-> FALSE, results |-> <<>>, anomalies |-> <<>>]
\* data = {results: s}
Obj(s) == [isNull |-> FALSE, hasResults |-> TRUE, results |-> s, anomalies |-> <<>>]
\* data = {} without results
NoResultsObj == [isNull |-> FALSE, hasResults |-> FALSE, results |-> <<>>, anomalies |-> <<>>]
\* data = {anomalies: a} without results
AnomaliesOnly(a) == [NoResultsObj EXCEPT !.anomalies = a]
\* data = {results: s, anomalies: a}
Both(s, a) == [Obj(s) EXCEPT !.anomalies = a]

(***************************************************************************)
(* JavaScript primitives, on the strings of the model                      *)
(***************************************************************************)
\* a > b on numbers where undefined converts to NaN: false when either is absent
JsGreater(a, b) == a # Absent /\ b # Absent /\ a > b

\* (x || 0)
OrZero(x) == IF x = Absent THEN 0 ELSE x

\* parseFloat(String(x)): the longest numeric prefix, else NaN
parseFloat(x) ==
    CASE x = "28.6" -> "28.6"
      [] x = "77.2" -> "77.2"
      [] x = "91" -> "91"
      [] x = "0" -> "0"
      [] x = "Infinity" -> "Infinity"
      [] x = "12abc" -> "12"
      [] OTHER -> "NaN"

isNaN(x) == x = "NaN"

\* (item.risk_class || '').toLowerCase()
toLowerCase(c) ==
    CASE c = NoClass -> ""
      [] c = "Theft" -> "theft"
      [] c = "MILD" -> "mild"
      [] c = "Normal" -> "normal"
      [] OTHER -> c

(***************************************************************************)
(* getUniqueConsumers (part_002:10-23)                                     *)
(***************************************************************************)
\* the position of key id in the insertion-ordered object, 0 when absent
KeyIndex(acc, id) ==
    IF \E k \in DOMAIN acc : acc[k].consumer_id = id
    THEN CHOOSE k \in DOMAIN acc : acc[k].consumer_id = id
    ELSE 0

\* one iteration of the forEach: lines 14-20
Upsert(acc, item) ==
    LET k == KeyIndex(acc, item.consumer_id) IN
    IF k = 0 THEN Append(acc, item)
    ELSE IF JsGreater(item.aggregate_risk_score, acc[k].aggregate_risk_score)
         THEN [acc EXCEPT ![k] = item]
         ELSE acc

RECURSIVE FoldUpsert(_, _, _)
FoldUpsert(items, i, acc) ==
    IF i > Len(items) THEN acc
    ELSE FoldUpsert(items, i + 1, Upsert(acc, items[i]))

\* Object.values(uniqueConsumers): keys that are not integers, in insertion order
getUniqueConsumers(d) ==
    IF d.isNull \/ ~d.hasResults THEN <<>>
    ELSE FoldUpsert(d.results, 1, <<>>)

(***************************************************************************)
(* updateMarkers, the body of consumers.forEach (part_002:108-157)         *)
(***************************************************************************)
\* a plausible slip: every marker red
MarkerColorAllRed(risk) == Red

\* lines 113, 121-123
MarkerColor(risk) == IF risk = "mild" THEN Yellow ELSE Red

\* line 111: the record is skipped
BadCoords(item) ==
    isNaN(parseFloat(item.latitude)) \/ isNaN(parseFloat(item.longitude))

\* line 117, negated: the record is kept
ClassShown(risk) == risk = "theft" \/ risk = "critical" \/ risk = "mild"

\* the marker and its info window: lines 126-150
MakeMarker(item) ==
    [consumer_id |-> item.consumer_id,
     risk_class |-> item.risk_class,
     lat |-> parseFloat(item.latitude),
     lng |-> parseFloat(item.longitude),
     color |-> MarkerColor(toLowerCase(item.risk_class)),
     pct |-> OrZero(item.aggregate_risk_score)]

\* the record reaches `new google.maps.Marker`
Pinned(item) == ~BadCoords(item) /\ ClassShown(toLowerCase(item.risk_class))

\* consumers.forEach under library state lib: the markers pushed, and whether
\* the Marker constructor threw (which ends the loop)
RECURSIVE BuildMarkers(_, _, _, _)
BuildMarkers(consumers, i, lib, made) ==
    IF i > Len(consumers) THEN [made |-> made, threw |-> FALSE]
    ELSE IF ~Pinned(consumers[i]) THEN BuildMarkers(consumers, i + 1, lib, made)
    ELSE IF lib = "markerThrows" THEN [made |-> made, threw |-> TRUE]
    ELSE BuildMarkers(consumers, i + 1, lib, Append(made, MakeMarker(consumers[i])))

(***************************************************************************)
(* ResultsDisplay: normalItems and sortedNormalItems (part_001:33-39)      *)
(***************************************************************************)
RECURSIVE FilterNormal(_, _)
FilterNormal(items, i) ==
    IF i > Len(items) THEN <<>>
    ELSE IF items[i].risk_class = "normal"
         THEN <<items[i]>> \o FilterNormal(items, i + 1)
         ELSE FilterNormal(items, i + 1)

\* what the table would list were it drawn from the ranked view
NormalItemsOfRanked(d) == FilterNormal(getUniqueConsumers(d), 1)

\* line 36
normalItems(d) == IF d.hasResults THEN FilterNormal(d.results, 1) ELSE <<>>

\* a plausible slip: the operands of the subtraction exchanged (ascending)
CompareAscending(a, b) == OrZero(a.aggregate_risk_score) - OrZero(b.aggregate_risk_score)

\* the comparator of line 39: negative when a sorts before b
Compare(a, b) == OrZero(b.aggregate_risk_score) - OrZero(a.aggregate_risk_score)

\* insert x after every element that does not sort after it (stable)
RECURSIVE InsertSorted(_, _)
InsertSorted(s, x) ==
    IF s = <<>> THEN <<x>>
    ELSE IF Compare(s[1], x) <= 0 THEN <<s[1]>> \o InsertSorted(Tail(s), x)
    ELSE <<x>> \o s

\* [...normalItems].sort(cmp): Array.prototype.sort is stable
RECURSIVE StableSort(_, _, _)
StableSort(items, i, acc) ==
    IF i > Len(items) THEN acc
    ELSE StableSort(items, i + 1, InsertSorted(acc, items[i]))

sortedNormalItems(d) == StableSort(normalItems(d), 1, <<>>)

(***************************************************************************)
(* Inputs of the pure functions                                            *)
(***************************************************************************)
Ids == {"C1", "C2", NoId}
Scores == {Absent, 20, 90}

\* records that differ in key, score and class; a consumer has one location
RankPool ==
    {Rec(id, s, c, "28.6", "77.2") : id \in Ids, s \in Scores, c \in {"theft", "normal"}}

Classes == {"theft", "critical", "mild", "normal", "Theft", "unknown", NoClass}
CoordPairs ==
    {<<"28.6", "77.2">>, <<"N/A", "77.2">>, <<"28.6", NoCoord>>,
     <<"Infinity", "77.2">>, <<"12abc", "0">>}

\* records that differ in class and coordinates, the i-th of consumer "Pi"
PinId(i) == CASE i = 1 -> "P1" [] i = 2 -> "P2" [] i = 3 -> "P3" [] OTHER -> "P4"
PinShapes == Classes \X CoordPairs
PinSeq(sh) ==
    [i \in DOMAIN sh |-> Rec(PinId(i), 50, sh[i][1], sh[i][2][1], sh[i][2][2])]

\* the end-to-end scenario of the specification, section 8
Scenario ==
    <<Rec("C1", 90, "theft", "28.6", "77.2"),
      Rec("C1", 20, "normal", "28.6", "77.2"),
      Rec("C2", 5, "normal", "91", "0")>>

\* the sort example of the specification, section 8: A 0.1, B 0.9, C 0.5
SortLaw ==
    <<Rec("A", 10, "normal", "28.6", "77.2"),
      Rec("B", 90, "normal", "28.6", "77.2"),
      Rec("C", 50, "normal", "28.6", "77.2")>>

\* d is an input of the pure functions: no data, no results, the scenario, the
\* sort example, up to MaxLen records of RankPool, fewer than MaxLen records
\* of PinShapes, anomalies without results, or one record of each
IsRankInput(d) ==
    \/ d \in {NullData, NoResultsObj, Obj(Scenario), Obj(SortLaw)}
    \/ \E k \in 0..MaxLen : \E s \in [1..k -> RankPool] : d = Obj(s)
    \/ \E k \in 0..(MaxLen - 1) : \E sh \in [1..k -> PinShapes] : d = Obj(PinSeq(sh))
    \/ \E k \in 1..(MaxLen - 1) : \E a \in [1..k -> RankPool] : d = AnomaliesOnly(a)
    \/ \E s, a \in [1..1 -> RankPool] : d = Both(s, a)

(***************************************************************************)
(* Idle values of the parts a specification does not move                  *)
(***************************************************************************)
RankIdle ==
    /\ rankIn = NullData /\ view = <<>> /\ pins = <<>> /\ rows = <<>>
    /\ view2 = <<>> /\ rankPc = "start"

MapIdle ==
    /\ phase = "new" /\ google = "absent" /\ data = NullData /\ data0 = NullData
    /\ googleMapRef = FALSE /\ markersRef = <<>> /\ attached = {}
    /\ error = FALSE /\ timers = 0 /\ mapCalls = 0 /\ built = 0
    /\ initCalls = 0 /\ uncaught = FALSE

\* result === null.  A stored result: the upload it was computed from, whether
\* the value is an object, whether it has a summary, and its records
NoResult == [from |-> 0, isObject |-> FALSE, summary |-> FALSE, body |-> NullData]

AppIdle ==
    /\ files = 0 /\ loading = FALSE /\ result = NoResult /\ calls = {}
    /\ alert = "none" /\ showAll = FALSE

(***************************************************************************)
(* SpecRank: the pure functions applied to a drawn input                   *)
(***************************************************************************)
InitRank ==
    /\ IsRankInput(rankIn)
    /\ view = <<>> /\ pins = <<>> /\ rows = <<>> /\ view2 = <<>>
    /\ rankPc = "start"
    /\ MapIdle /\ AppIdle

\* const consumers = getUniqueConsumers(data)
Rank ==
    /\ rankPc = "start"
    /\ view' = getUniqueConsumers(rankIn)
    /\ rankPc' = "ranked"
    /\ UNCHANGED <<rankIn, pins, rows, view2, mapVars, appVars>>

\* consumers.forEach(...) with the library present, and the table of ResultsDisplay
Render ==
    /\ rankPc = "ranked"
    /\ pins' = BuildMarkers(view, 1, "ok", <<>>).made
    /\ rows' = sortedNormalItems(rankIn)
    /\ rankPc' = "rendered"
    /\ UNCHANGED <<rankIn, view, view2, mapVars, appVars>>

\* the next render calls getUniqueConsumers(data) again
RankAgain ==
    /\ rankPc = "rendered"
    /\ view2' = getUniqueConsumers(rankIn)
    /\ rankPc' = "again"
    /\ UNCHANGED <<rankIn, view, pins, rows, mapVars, appVars>>

NextRank == Rank \/ Render \/ RankAgain

SpecRank == InitRank /\ [][NextRank]_vars

(***************************************************************************)
(* MapComponent.  The refs and the error state as one record, so that the  *)
(* handlers compose: threw marks an exception on its way to a catch.       *)
(***************************************************************************)
Comp ==
    [surface |-> googleMapRef, markers |-> markersRef, attached |-> attached,
     error |-> error, mapCalls |-> mapCalls, built |-> built,
     initCalls |-> initCalls, timers |-> timers, threw |-> FALSE]

\* markersRef.current.forEach(marker => marker.setMap(null)): lines 40, 103
DetachOwned(c) == [c EXCEPT !.attached = @ \ Range(c.markers)]

\* a plausible slip: the effect returns no cleanup
CleanupNothing(c) == c

\* the cleanup of the [] effect: lines 38-41
Cleanup(c) == DetachOwned(c)

\* updateMarkers (lines 99-158) on data d with the library in state lib
updateMarkers(c, d, lib) ==
    IF ~c.surface THEN c
    ELSE LET cleared == [DetachOwned(c) EXCEPT !.markers = <<>>]
             res == BuildMarkers(getUniqueConsumers(d), 1, lib, <<>>)
         IN [cleared EXCEPT !.markers = res.made,
                            !.attached = @ \cup Range(res.made),
                            !.threw = res.threw]

\* a plausible slip: the "already initialized" guard of line 46 left out
InitializeMapNoGuard(c, d, lib, hostAttached) ==
    LET c1 == [c EXCEPT !.initCalls = @ + 1] IN
    IF ~hostAttached THEN c1
    ELSE IF lib = "mapThrows"
    THEN [c1 EXCEPT !.mapCalls = @ + 1, !.error = TRUE]
    ELSE LET c2 == [c1 EXCEPT !.mapCalls = @ + 1, !.built = @ + 1, !.surface = TRUE]
             c3 == updateMarkers(c2, d, lib)
         IN IF c3.threw THEN [c3 EXCEPT !.threw = FALSE, !.error = TRUE] ELSE c3

\* initializeMap (lines 44-97), of the render whose data prop is d;
\* hostAttached: mapRef.current is set
initializeMap(c, d, lib, hostAttached) ==
    LET c1 == [c EXCEPT !.initCalls = @ + 1] IN
    IF ~hostAttached THEN c1
    ELSE IF c1.surface THEN c1
    ELSE IF lib = "mapThrows"
    THEN [c1 EXCEPT !.mapCalls = @ + 1, !.error = TRUE]
    ELSE LET c2 == [c1 EXCEPT !.mapCalls = @ + 1, !.built = @ + 1, !.surface = TRUE]
             c3 == updateMarkers(c2, d, lib)
         IN IF c3.threw THEN [c3 EXCEPT !.threw = FALSE, !.error = TRUE] ELSE c3

\* a plausible slip: the library is checked once, no re-check is scheduled
CheckOnce(c, d, lib, hostAttached) ==
    IF lib # "absent" THEN initializeMap(c, d, lib, hostAttached)
    ELSE c

\* checkForGoogleMaps (lines 27-34)
checkForGoogleMaps(c, d, lib, hostAttached) ==
    IF lib # "absent" THEN initializeMap(c, d, lib, hostAttached)
    ELSE [c EXCEPT !.timers = @ + 1]

\* the effect of lines 161-165
DataEffectR(c, d, lib) == IF c.surface THEN updateMarkers(c, d, lib) ELSE c

\* React's StrictMode replays the effects once after the first mount: the
\* cleanup of lines 38-41, then both effects again
StrictReplayR(c, d, lib) ==
    DataEffectR(checkForGoogleMaps(Cleanup(c), d, lib, TRUE), d, lib)

\* both effects of the first commit, replayed when strict
MountR(c, d, lib, strict) ==
    LET c1 == DataEffectR(checkForGoogleMaps(c, d, lib, TRUE), d, lib) IN
    IF c1.threw \/ ~strict THEN c1 ELSE StrictReplayR(c1, d, lib)

\* the refs and state after a handler; an exception that escaped an effect
\* unmounts the tree, which runs the cleanup of lines 38-41
Commit(c, ph) ==
    LET c1 == IF c.threw THEN Cleanup(c) ELSE c IN
    /\ googleMapRef' = c1.surface
    /\ markersRef' = c1.markers
    /\ attached' = c1.attached
    /\ error' = c1.error
    /\ mapCalls' = c1.mapCalls
    /\ built' = c1.built
    /\ initCalls' = c1.initCalls
    /\ timers' = c1.timers
    /\ uncaught' = (uncaught \/ c.threw)
    /\ phase' = IF c.threw THEN "unmounted" ELSE ph

MapPool ==
    {Rec("C1", 90, "theft", "28.6", "77.2"),
     Rec("C1", 20, "normal", "28.6", "77.2"),
     Rec("C2", 50, "mild", "28.6", "77.2")}

MapData == {NullData} \cup {Obj(s) : s \in SeqsUpTo(MapPool, MaxDataLen)}

Init ==
    /\ phase = "new" /\ google = "absent"
    /\ data \in MapData /\ data0 = NullData
    /\ googleMapRef = FALSE /\ markersRef = <<>> /\ attached = {}
    /\ error = FALSE /\ timers = 0 /\ mapCalls = 0 /\ built = 0
    /\ initCalls = 0 /\ uncaught = FALSE
    /\ RankIdle /\ AppIdle

\* the first render and commit: both effects run (lines 25-42, 161-165)
Mount ==
    /\ phase = "new"
    /\ \E strict \in BOOLEAN : Commit(MountR(Comp, data, google, strict), "mounted")
    /\ data0' = data
    /\ UNCHANGED <<google, data, rankVars, appVars>>

\* the parent renders with another data prop: the effect of lines 161-165
DataChange ==
    /\ phase = "mounted"
    /\ \E d \in MapData \ {data} :
           /\ data' = d
           /\ Commit(DataEffectR(Comp, d, google), "mounted")
    /\ UNCHANGED <<google, data0, rankVars, appVars>>

\* a timer of line 32 fires: checkForGoogleMaps of the first render
PollFire ==
    /\ timers > 0
    /\ LET c == checkForGoogleMaps([Comp EXCEPT !.timers = @ - 1], data0, google,
                                    phase = "mounted")
       IN Commit(c, phase)
    /\ UNCHANGED <<google, data, data0, rankVars, appVars>>

\* the component unmounts: the cleanup of lines 38-41; the timers stay
Unmount ==
    /\ phase = "mounted"
    /\ Commit(Cleanup(Comp), "unmounted")
    /\ UNCHANGED <<google, data, data0, rankVars, appVars>>

\* the injected script loads, whole or in part, or finishes loading
LibraryChange ==
    /\ \/ google = "absent" /\ google' \in {"ok", "mapThrows", "markerThrows"}
       \/ google \in {"mapThrows", "markerThrows"} /\ google' = "ok"
    /\ UNCHANGED <<phase, data, data0, googleMapRef, markersRef, attached, error,
                   timers, mapCalls, built, initCalls, uncaught, rankVars, appVars>>

Next == Mount \/ DataChange \/ PollFire \/ Unmount \/ LibraryChange

Spec == Init /\ [][Next]_vars

(***************************************************************************)
(* App (part_000:67-130) and the toggle of ResultsDisplay (part_001:29)    *)
(***************************************************************************)
\* the bodies the backend answers with
AppData == {Obj(<<>>), Obj(Scenario)}

\* what a 2xx answer carries, as data.data of the envelope {status: 'success',
\* data} or as the body itself: an analysis result, an object without
\* summary, a number, or null
Payloads ==
    {[kind |-> "object", summary |-> TRUE, body |-> d] : d \in AppData}
    \cup {[kind |-> "object", summary |-> FALSE, body |-> Obj(Scenario)],
          [kind |-> "number", summary |-> FALSE, body |-> NoResultsObj],
          [kind |-> "null", summary |-> FALSE, body |-> NullData]}

\* the alert of line 126 when reading data.status of a null body throws
TypeErrorNotice == "Error: Cannot read properties of null (reading 'status')"

\* setResult(p) for the call issued for upload from (lines 118-122)
Stored(from, p) ==
    IF p.kind = "null" THEN NoResult
    ELSE [from |-> from, isObject |-> (p.kind = "object"), summary |-> p.summary,
          body |-> p.body]

\* ResultsDisplay throws while rendering r: past the guard of line 31, line 49
\* reads summary.grid_health_score of an undefined summary
ResultsDisplayThrows(r) == r # NoResult /\ ~r.summary

\* a render threw: without an error boundary React unmounts the whole tree
Crashed == ResultsDisplayThrows(result)

InitApp ==
    /\ files = 0 /\ loading = FALSE /\ result = NoResult /\ calls = {}
    /\ alert = "none" /\ showAll = FALSE
    /\ RankIdle /\ MapIdle

\* a plausible slip: the upload also hides the normal-entries panel
HandleFileUploadHidesPanel ==
    /\ ~Crashed
    /\ files < MaxUploads
    /\ files' = files + 1
    /\ result' = NoResult
    /\ showAll' = FALSE
    /\ UNCHANGED <<loading, calls, alert, rankVars, mapVars>>

\* handleFileUpload (lines 82-88): each upload is a new file
handleFileUpload ==
    /\ ~Crashed
    /\ files < MaxUploads
    /\ files' = files + 1
    /\ result' = NoResult
    /\ UNCHANGED <<loading, calls, alert, showAll, rankVars, mapVars>>

\* a plausible slip: the button is not disabled while loading
HandleFetchNotDisabled ==
    /\ ~Crashed
    /\ result' = NoResult
    /\ IF files = 0
       THEN /\ alert' = "no_file"
            /\ loading' = FALSE
            /\ calls' = calls
       ELSE /\ loading' = TRUE
            /\ calls' = calls \cup {[from |-> files]}
            /\ alert' = alert
    /\ UNCHANGED <<files, showAll, rankVars, mapVars>>

\* handleFetch up to its first await (lines 90-108); the button is disabled
\* while loading (line 152)
handleFetch ==
    /\ ~Crashed
    /\ ~loading
    /\ result' = NoResult
    /\ IF files = 0
       THEN /\ alert' = "no_file"
            /\ loading' = FALSE
            /\ calls' = calls
       ELSE /\ loading' = TRUE
            /\ calls' = calls \cup {[from |-> files]}
            /\ alert' = alert
    /\ UNCHANGED <<files, showAll, rankVars, mapVars>>

\* the call resolves with a 2xx body, enveloped or not (lines 115-122, 127-129)
RespondOk ==
    /\ \E c \in calls, p \in Payloads, enveloped \in BOOLEAN :
           /\ calls' = calls \ {c}
           /\ IF ~enveloped /\ p.kind = "null"
              THEN /\ alert' = TypeErrorNotice
                   /\ result' = result
              ELSE /\ alert' = alert
                   /\ result' = Stored(c.from, p)
    /\ loading' = FALSE
    /\ UNCHANGED <<files, showAll, rankVars, mapVars>>

\* the alert of line 126: fetch rejected, or the throw of line 112
FailureNotices == {"Error: Failed to fetch", "Error: Server error: <response text>"}

\* a plausible slip: no finally block, loading stays true after a failure
RespondErrorKeepsLoading ==
    /\ \E c \in calls : calls' = calls \ {c}
    /\ alert' \in FailureNotices
    /\ UNCHANGED <<files, loading, result, showAll, rankVars, mapVars>>

\* the call rejects or answers non-2xx (lines 110-113, 124-129)
RespondError ==
    /\ \E c \in calls : calls' = calls \ {c}
    /\ alert' \in FailureNotices
    /\ loading' = FALSE
    /\ UNCHANGED <<files, result, showAll, rankVars, mapVars>>

\* the toggle button of ResultsDisplay, rendered when data is set (lines 31, 100-105)
ToggleShowAll ==
    /\ result # NoResult /\ ~Crashed
    /\ showAll' = ~showAll
    /\ UNCHANGED <<files, loading, result, calls, alert, rankVars, mapVars>>

NextApp ==
    handleFileUpload \/ handleFetch \/ RespondOk \/ RespondError \/ ToggleShowAll

SpecApp == InitApp /\ [][NextApp]_vars

(***************************************************************************)
(* Claims on the pure functions (SpecRank)                                 *)
(***************************************************************************)
Results == rankIn.results
Ranked == rankPc # "start"
Rendered == rankPc \in {"rendered", "again"}

\* the consumerIds that occur in the input
IdsIn(items) == {items[i].consumer_id : i \in DOMAIN items} \ {NoId}
PositionsOf(items, id) == {i \in DOMAIN items : items[i].consumer_id = id}
\* the greatest score of the records of id, an absent score counting as 0
MaxScore(items, id) ==
    CHOOSE m \in {OrZero(items[i].aggregate_risk_score) : i \in PositionsOf(items, id)} :
        \A i \in PositionsOf(items, id) : OrZero(items[i].aggregate_risk_score) <= m
TiedAtMax(items, id) ==
    {i \in PositionsOf(items, id) :
        OrZero(items[i].aggregate_risk_score) = MaxScore(items, id)}
First(S) == CHOOSE i \in S : \A j \in S : i <= j

\* C1: for every consumerId of the input the ranked view holds exactly one
\* record, and that record's score is the maximum over the input records of
\* that consumerId.
C1_KeepsMaximum ==
    Ranked =>
        \A id \in IdsIn(Results) :
            /\ Cardinality(PositionsOf(view, id)) = 1
            /\ \A k \in PositionsOf(view, id) :
                   OrZero(view[k].aggregate_risk_score) = MaxScore(Results, id)

\* C2: when several records of a consumerId share the greatest score the view
\* keeps the first of them in input order, and a second call on the same
\* input returns the same view.
C2_FirstOfTiesKept ==
    /\ Ranked =>
           \A id \in IdsIn(Results) :
               Cardinality(TiedAtMax(Results, id)) >= 2 =>
                   \A k \in PositionsOf(view, id) :
                       view[k] = Results[First(TiedAtMax(Results, id))]
    /\ rankPc = "again" => view2 = view

\* C3: the view has as many entries as the input has distinct consumerIds,
\* never more entries than the input has records, and no two entries of the
\* view share a consumer_id.
C3_Cardinality ==
    Ranked =>
        /\ Len(view) = Cardinality(IdsIn(Results))
        /\ Len(view) <= Len(Results)
        /\ \A j, k \in DOMAIN view :
               view[j].consumer_id = view[k].consumer_id => j = k

PinsOf(id) == {k \in DOMAIN pins : pins[k].consumer_id = id}
Finite(x) == x # "NaN" /\ x # "Infinity"
FiniteCoords(item) ==
    Finite(parseFloat(item.latitude)) /\ Finite(parseFloat(item.longitude))
LowerClass(item) == toLowerCase(item.risk_class)

\* C4 as stated: every marker belongs to a record whose riskClass is one of
\* theft, critical, mild; any other class string produces no marker; mild
\* gives a yellow marker, theft and critical a red one.
C4_AsStated ==
    Rendered =>
        /\ \A k \in DOMAIN pins : pins[k].risk_class \in {"theft", "critical", "mild"}
        /\ \A j \in DOMAIN view :
               view[j].risk_class \notin {"theft", "critical", "mild"}
                   => PinsOf(view[j].consumer_id) = {}

\* C4, amended: the class is compared in lower case.  Every marker belongs to
\* a record of the view whose lower-cased riskClass is theft, critical or
\* mild, with yellow for mild and red for theft and critical; a record of
\* any other class (normal, unknown, absent) has no marker; a record of a
\* shown class with finite coordinates has its marker.
C4_MarkerFilter ==
    Rendered =>
        /\ \A k \in DOMAIN pins :
               \E j \in DOMAIN view :
                   /\ view[j].consumer_id = pins[k].consumer_id
                   /\ view[j].risk_class = pins[k].risk_class
                   /\ \/ LowerClass(view[j]) = "mild" /\ pins[k].color = "#eab308"
                      \/ LowerClass(view[j]) \in {"theft", "critical"}
                            /\ pins[k].color = "#ef4444"
        /\ \A j \in DOMAIN view :
               LowerClass(view[j]) \notin {"theft", "critical", "mild"}
                   => PinsOf(view[j].consumer_id) = {}
        /\ \A j \in DOMAIN view :
               LowerClass(view[j]) \in {"theft", "critical", "mild"} /\ FiniteCoords(view[j])
                   => Cardinality(PinsOf(view[j].consumer_id)) = 1

\* one render with a yellow marker for a mild record and a red marker for a
\* record whose class is written "Theft"
C4_Witness ==
    /\ Rendered /\ Len(pins) = 2
    /\ \E k \in DOMAIN pins : pins[k].color = "#eab308" /\ pins[k].risk_class = "mild"
    /\ \E k \in DOMAIN pins : pins[k].color = "#ef4444" /\ pins[k].risk_class = "Theft"

\* C5: a record whose latitude or longitude does not parse as a finite number
\* produces no marker, and every other qualifying record of the same render
\* has its marker.
C5_CoordinateGuard ==
    Rendered =>
        /\ \A j \in DOMAIN view :
               ~FiniteCoords(view[j]) => PinsOf(view[j].consumer_id) = {}
        /\ \A j \in DOMAIN view :
               FiniteCoords(view[j]) /\ LowerClass(view[j]) \in {"theft", "critical", "mild"}
                   => Cardinality(PinsOf(view[j].consumer_id)) = 1

IsScenario == rankIn = Obj(Scenario)
OneRedMarkerForC1 ==
    /\ Len(pins) = 1
    /\ pins[1].consumer_id = "C1" /\ pins[1].color = "#ef4444"

\* C10 as stated: in the scenario the view has two entries, the map one red
\* marker (C1) and the normal-entries table only C2; a consumer whose ranked
\* record is not normal has no row in the normal-entries table.
C10_AsStated ==
    Rendered =>
        /\ IsScenario =>
               /\ Len(view) = 2 /\ OneRedMarkerForC1
               /\ rows = <<Scenario[3]>>
        /\ \A j \in DOMAIN view :
               view[j].consumer_id \in IdsIn(Results) /\ view[j].risk_class # "normal"
                   => \A r \in DOMAIN rows : rows[r].consumer_id # view[j].consumer_id

\* C10, amended: in the scenario the view has two entries, the map one red
\* marker (C1), and the normal-entries table lists the normal record of C1
\* (0.2) and C2; the table holds every record of allRecords whose class is
\* normal, also of a consumer whose ranked record is not normal, and nothing
\* else.
C10_Scenario ==
    Rendered =>
        /\ IsScenario =>
               /\ Len(view) = 2 /\ OneRedMarkerForC1
               /\ view = <<Scenario[1], Scenario[3]>>
               /\ rows = <<Scenario[2], Scenario[3]>>
        /\ \A i \in DOMAIN Results :
               Results[i].risk_class = "normal" => \E r \in DOMAIN rows : rows[r] = Results[i]
        /\ \A r \in DOMAIN rows :
               rows[r].risk_class = "normal" /\ \E i \in DOMAIN Results : rows[r] = Results[i]

C10_Witness == Rendered /\ IsScenario /\ Len(rows) = 2 /\ Len(pins) = 1

\* the positions of the input records whose class is normal
NormalPositions == {i \in DOMAIN Results : Results[i].risk_class = "normal"}
\* position j comes before position i in the table: a greater score (absent
\* counted as 0), or the same score and earlier in the input
Before(j, i) ==
    \/ OrZero(Results[j].aggregate_risk_score) > OrZero(Results[i].aggregate_risk_score)
    \/ /\ OrZero(Results[j].aggregate_risk_score) = OrZero(Results[i].aggregate_risk_score)
       /\ j < i
\* the row of the table where the record at position i belongs
RowOf(i) == 1 + Cardinality({j \in NormalPositions : Before(j, i)})

\* C11: the normal-entries table lists exactly the input records whose class
\* is normal, one row each, by score descending with an absent score counted
\* as 0 and records of equal score in input order; A 0.1, B 0.9, C 0.5 are
\* listed B, C, A.
C11_SortedStable ==
    Rendered =>
        /\ Len(rows) = Cardinality(NormalPositions)
        /\ \A i \in NormalPositions : rows[RowOf(i)] = Results[i]
        /\ rankIn = Obj(SortLaw) => rows = <<SortLaw[2], SortLaw[3], SortLaw[1]>>

\* the table of the sort example, in the order B, C, A
C11_Witness ==
    /\ Rendered /\ rankIn = Obj(SortLaw) /\ Len(rows) = 3
    /\ rows[1].consumer_id = "B" /\ rows[2].consumer_id = "C" /\ rows[3].consumer_id = "A"

\* C15: a record without consumer_id is dropped: it is no entry of the ranked
\* view, has no marker and no row in the normal-entries table, and every
\* consumer_id of the input still has its entry in the view.
C15_NoIdDropped ==
    /\ Ranked =>
           /\ \A k \in DOMAIN view : view[k].consumer_id # NoId
           /\ \A id \in IdsIn(Results) : PositionsOf(view, id) # {}
    /\ Rendered =>
           /\ \A k \in DOMAIN pins : pins[k].consumer_id # NoId
           /\ \A r \in DOMAIN rows : rows[r].consumer_id # NoId

\* C20: when a consumerId has two records, one without a score and one with
\* a score greater than 0, the view keeps the scored record, whichever of the
\* two comes first.
C20_AbsentScoreIsZero ==
    Ranked =>
        \A id \in IdsIn(Results) :
            \A i, j \in PositionsOf(Results, id) :
                (/\ PositionsOf(Results, id) = {i, j}
                 /\ Results[i].aggregate_risk_score = Absent
                 /\ Results[j].aggregate_risk_score # Absent
                 /\ Results[j].aggregate_risk_score > 0)
                    => \A k \in PositionsOf(view, id) : view[k] = Results[j]

\* C21: the ranked view is drawn from results when it is present and from
\* anomalies when it is not: every entry of the view is a record of that
\* source, and every consumerId of the source has its entry.
C21_SourceOfView ==
    (Ranked /\ ~rankIn.isNull) =>
        LET src == IF rankIn.hasResults THEN rankIn.results ELSE rankIn.anomalies IN
        /\ \A k \in DOMAIN view : \E i \in DOMAIN src : view[k] = src[i]
        /\ \A id \in IdsIn(src) : PositionsOf(view, id) # {}

(***************************************************************************)
(* Claims on the MapComponent (Spec)                                       *)
(***************************************************************************)
\* the markers of the qualifying records of the ranked view of d: finite
\* coordinates and a class among theft, critical, mild
Qualifying(d) ==
    LET v == getUniqueConsumers(d) IN
    {MakeMarker(v[j]) : j \in {k \in DOMAIN v :
        FiniteCoords(v[k]) /\ LowerClass(v[k]) \in {"theft", "critical", "mild"}}}

\* the surface exists, the library works and no error was reported
Ready == phase = "mounted" /\ googleMapRef /\ google = "ok" /\ ~error

\* C6: in the Ready state, once a render has completed, the live markers are
\* exactly the markers of the qualifying records of the ranked view of the
\* current data, and they are the owned ones.
C6_MarkersAreCurrentData ==
    Ready => attached = Qualifying(data) /\ Range(markersRef) = attached

\* C7: a render requested while no surface exists creates no marker and
\* raises no error, and the render done when readiness flips shows the
\* markers of the data pushed last.
C7_RenderOnReadiness ==
    [][/\ (phase = "mounted" /\ ~googleMapRef /\ ~googleMapRef' /\ data' # data)
              => attached' = {} /\ markersRef' = <<>> /\ ~uncaught'
       /\ (~googleMapRef /\ googleMapRef' /\ google = "ok")
              => attached' = Qualifying(data')]_vars

\* C8: the surface is constructed at most once, and initializeMap called when
\* a surface exists constructs nothing and leaves the surface, the owned
\* markers and the live markers as they are.
C8_SurfaceBuiltOnce ==
    [][/\ built' <= 1
       /\ (googleMapRef /\ initCalls' > initCalls)
              => /\ googleMapRef' /\ built' = built /\ mapCalls' = mapCalls
                 /\ markersRef' = markersRef /\ attached' = attached
                 /\ error' = error]_vars

\* both poll chains of a strict mount have detected the library: the first
\* built the surface and its markers, the second found the surface in place
C8_Witness ==
    /\ phase = "mounted" /\ googleMapRef /\ initCalls = 2 /\ built = 1
    /\ timers = 0 /\ attached # {}
    /\ attached = Qualifying(data0) /\ attached # Qualifying(data)

\* C12: once the component is unmounted, from whatever state, every marker it
\* owned is detached and no marker is attached to the surface again: a poll
\* that fires later finds no host element and does nothing.
C12_TeardownDetaches ==
    phase = "unmounted" => attached = {}

\* unmounted with a surface and owned markers, all detached, a poll pending
C12_Witness ==
    /\ phase = "unmounted" /\ googleMapRef /\ markersRef # <<>> /\ attached = {}
    /\ timers > 0 /\ ~uncaught

\* C16: a construction of the surface that throws sets the error, and from
\* then on (error set, no surface) construction is never attempted again, no
\* surface is built and no marker is created.
C16_FailedIsTerminal ==
    [][/\ (mapCalls' > mapCalls /\ built' = built) => error'
       /\ (error /\ ~googleMapRef)
              => /\ mapCalls' = mapCalls /\ ~googleMapRef'
                 /\ attached' = {} /\ markersRef' = <<>>]_vars

\* C17: while the library is absent the error is not set, no surface is
\* constructed and no marker is created; a mounted component has a re-check
\* pending, and each failed check schedules exactly one re-check in its
\* place, without limit: the number of pending re-checks never changes.
C17_PollsWhileAbsent ==
    [][google' = "absent" =>
           /\ ~error' /\ ~googleMapRef' /\ mapCalls' = 0 /\ initCalls' = 0
           /\ markersRef' = <<>> /\ attached' = {}
           /\ phase' = "mounted" => timers' >= 1
           /\ phase # "new" => timers' = timers]_vars

\* mounted and polling for a library that has not appeared
C17_Witness ==
    /\ google = "absent" /\ phase = "mounted" /\ timers >= 1
    /\ ~error /\ ~googleMapRef /\ data # data0

\* C19: a check that detects the library (it calls initializeMap) schedules
\* no re-check and leaves the monitor in exactly one of Ready (the surface
\* exists) and Failed (the error is set), also when the host element is not
\* attached at that moment.
C19_DetectionIsTerminal ==
    [][initCalls' > initCalls =>
           /\ timers' <= timers
           /\ \/ googleMapRef' /\ ~error'
              \/ ~googleMapRef' /\ error']_vars

\* C23: in every state of the mounted component Ready and Failed exclude each
\* other: when the error is set no surface exists and no marker is live, so
\* a surface never coexists with the error.
C23_ReadyXorFailed ==
    (phase = "mounted" /\ error) => (~googleMapRef /\ attached = {})

(***************************************************************************)
(* Claims on the orchestrator (SpecApp)                                    *)
(***************************************************************************)
\* C9: after a new upload has begun the stored result is absent, and no
\* result computed from an earlier upload is stored (and displayed) again:
\* a stored result is a result of the file uploaded last.
C9_NoStaleResult ==
    result # NoResult => result.from = files

\* C13: when the backend call fails the user is alerted with the failure
\* text, the stored result is absent, loading is false again and no call is
\* in flight; a backend call is issued only by a click on fetch.
C13_FailureIsReported ==
    [][/\ RespondError =>
              /\ alert' \in FailureNotices /\ result' = NoResult
              /\ ~loading' /\ calls' = {}
       /\ ~(calls' \subseteq calls) => handleFetch]_vars

\* a call for an uploaded file has failed
C13_Witness ==
    /\ alert \in FailureNotices /\ files > 0 /\ result = NoResult
    /\ ~loading /\ calls = {}

\* C14: a stored result is an object with a summary: a 2xx body that is not
\* an object or has no summary, enveloped or not, is never stored as the
\* current result (and so never handed to ResultsDisplay).
C14_OnlyParsedResults ==
    result # NoResult => result.isObject /\ result.summary

\* C18: the toggle changes only by a click on the toggle button; a step that
\* changes the stored result (to absent or to a new result) leaves it as it is.
C18_ToggleOnlyByClick ==
    [][/\ showAll' # showAll => ToggleShowAll
       /\ result' # result => showAll' = showAll]_vars

\* the panel was switched on, and is still on after a new upload cleared the
\* result
C18_Witness ==
    showAll /\ result = NoResult /\ files >= 2

\* C22: after every step of the orchestrator at most one backend call is in
\* flight; no call is in flight while no file has been uploaded; while a
\* call is in flight loading is true and the stored result is absent; and
\* the step that resolves or rejects a call leaves loading false.
C22_OneCallAtATime ==
    [][/\ Cardinality(calls') <= 1
       /\ files' = 0 => calls' = {}
       /\ calls' # {} => loading' /\ result' = NoResult
       /\ (calls' # calls /\ calls' \subseteq calls) => ~loading']_vars

\* a call issued for the first upload is in flight while a later file has
\* been uploaded
C22_Witness ==
    /\ loading /\ result = NoResult
    /\ \E c \in calls : c.from < files

====
